---------------------------- MODULE Spec2Model ----------------------------
(***************************************************************************)
(* State-machine model of obsidian_git_bridge.git_ops: the status/sync     *)
(* operations get_repo_status, pull_changes, push_changes, quick_sync,     *)
(* initial_commit and setup_remote, over one vault directory, its Git      *)
(* repository and the remote "origin".  Every operation is one atomic      *)
(* action (the program is single-threaded and synchronous); the answers of *)
(* the external git tool that depend on the network are inputs of the      *)
(* action, the local effects of git are computed from the repository.      *)
(***************************************************************************)
EXTENDS Integers, Sequences, FiniteSets, TLC

\* ------------------------------------------------------------------ bounds
\* Most local commits that the remote-tracking ref lacks.
MaxAhead == 2
\* Most commits the remote holds that the local branch lacks.
MaxBehind == 1

\* ------------------------------------------------------------ the universe
Files == {"a"}
\* Content of a path in a tree: absent, or one of two versions.
Versions == {"v1", "v2"}
Absent == "absent"
\* A working-tree file holding conflict markers; an index entry in stages 1-3.
Markers == "markers"
Unmerged == "unmerged"
Content == Versions \cup {Absent, Markers}
IndexContent == Content \cup {Unmerged}

\* Words the code looks for in the tool's (lower-cased) error text.
Keywords == {"conflict", "authentication", "permission", "rejected"}
\* The answer of one network call of the tool: exit status and error text,
\* the text reduced to the set of keywords it contains.
\* answers: the call came to an end; FALSE when the remote never answers it.
ToolOk == [ok |-> TRUE, text |-> {}, answers |-> TRUE]
ToolFail(text) == [ok |-> FALSE, text |-> text, answers |-> TRUE]
ToolSilent == [ok |-> FALSE, text |-> {}, answers |-> FALSE]
FetchAnswers == {ToolOk} \cup {ToolFail(t) : t \in SUBSET {"authentication"}}
PullAnswers == {ToolOk} \cup {ToolFail(t) : t \in SUBSET {"conflict", "authentication"}}
PushAnswers ==
    {ToolOk} \cup {ToolFail(t) : t \in {{}, {"rejected"}, {"authentication"},
                                        {"permission"}, {"rejected", "authentication"}}}

\* What the probe `git --version` meets.
GitEnv == {"ok", "missing", "timeout", "failed"}

\* Error kinds (exception classes); NoError: the call returned.
NoError == "none"
GitErrorK == "GitError"
GitNotInstalledK == "GitNotInstalledError"
NotAGitRepoK == "NotAGitRepoError"
MergeConflictK == "MergeConflictError"
AuthenticationK == "AuthenticationError"
PushRejectedK == "PushRejectedError"
\* A Python exception that is no GitError (AttributeError, TypeError).
OtherExceptionK == "Exception"
\* The call neither returned nor raised: it waits for the tool for ever.
Blocked == "blocked"

VARIABLES
    gitpython,   \* GITPYTHON_AVAILABLE: which backend every operation takes
    repo,        \* the vault directory and its repository
    remoteNew,   \* commits on the remote that no fetch has brought yet
    last,        \* the last operation: arguments, state before, steps, outcome
    host         \* what the doctor reads outside the work tree: identity, keys

vars == <<gitpython, repo, remoteNew, last, host>>

\* ---------------------------------------------------------- the repository
AllAbsent == [f \in Files |-> Absent]

\* The file .gitignore of the vault directory: missing, or its lines.
NoIgnoreFile == [exists |-> FALSE, lines |-> <<>>]
IgnoreFile(lines) == [exists |-> TRUE, lines |-> lines]

\* A directory that holds no repository.  isRepo: git finds a repository from
\* the path, its own or an enclosing one; own: the path has a .git directory of
\* its own.  With an enclosing repository the other fields describe that one.
NoRepo ==
    [isRepo |-> FALSE, own |-> FALSE, detached |-> FALSE, born |-> FALSE,
     head |-> AllAbsent, index |-> AllAbsent, work |-> AllAbsent,
     inProgress |-> "none", ahead |-> 0, behind |-> 0,
     upstream |-> FALSE, remotes |-> <<>>, gitignore |-> NoIgnoreFile]

\* `git init`: an unborn branch, an empty index; the directory's files stay.
GitInit(r) ==
    [NoRepo EXCEPT !.isRepo = TRUE, !.own = TRUE, !.work = r.work,
                   !.gitignore = r.gitignore]

\* Paths whose index entry differs from the last commit (`git diff --cached`).
StagedFiles(r) == {f \in Files : r.index[f] # r.head[f]}
\* Tracked paths whose working-tree state differs from the index (`git diff`).
UnstagedFiles(r) == {f \in Files : r.index[f] # Absent /\ r.work[f] # r.index[f]}
\* Paths on disk that the index does not hold.
UntrackedFiles(r) == {f \in Files : r.index[f] = Absent /\ r.work[f] # Absent}
UnmergedFiles(r) == {f \in Files : r.index[f] = Unmerged}

\* `git status --porcelain` prints nothing.
PorcelainEmpty(r) ==
    StagedFiles(r) = {} /\ UnstagedFiles(r) = {} /\ UntrackedFiles(r) = {}

\* GitPython Repo.is_dirty(untracked_files=...).
is_dirty(r, untracked_files) ==
    \/ StagedFiles(r) # {}
    \/ UnstagedFiles(r) # {}
    \/ untracked_files /\ UntrackedFiles(r) # {}

\* Mutant: `git add -u`, which stages tracked paths only.
GitAddTracked(r) ==
    [r EXCEPT !.index = [f \in Files |->
                            IF r.index[f] = Absent THEN Absent ELSE r.work[f]]]
\* `git add -A`: the index becomes the working tree.
GitAddAll(r) == [r EXCEPT !.index = r.work]

\* The commit object both backends write from the index.
WriteCommit(r) ==
    [r EXCEPT !.head = r.index, !.born = TRUE, !.ahead = @ + 1]

\* `git commit -m`: refuses when the index equals the last commit (unless it
\* concludes a merge); a successful commit concludes the merge.
CliCommitOk(r) ==
    /\ UnmergedFiles(r) = {}
    /\ (r.index # r.head \/ r.inProgress = "merge")
CliCommit(r) ==
    [WriteCommit(r) EXCEPT !.inProgress = "none",
                           !.behind = IF r.inProgress = "merge" THEN 0 ELSE @]

\* GitPython index.commit(message): writes the index as a commit on HEAD,
\* also when nothing changed.
PyCommit(r) == WriteCommit(r)

\* `git fetch origin`: the remote-tracking ref takes the remote's commits.
GitFetch(r, n) == [r EXCEPT !.behind = @ + n]

\* `git rebase --abort`: with a rebase in progress, back to the original
\* branch tip, index and tracked files; without one, it fails and changes
\* nothing.
RebaseAbort(r) ==
    IF r.inProgress = "rebase"
    THEN [r EXCEPT !.inProgress = "none",
                   !.index = r.head,
                   !.work = [f \in Files |->
                               IF r.index[f] # Absent \/ r.head[f] # Absent
                               THEN r.head[f] ELSE r.work[f]]]
    ELSE r


\* `git merge --abort`: with a merge in progress, the same restoration.
MergeAbort(r) ==
    IF r.inProgress = "merge"
    THEN [r EXCEPT !.inProgress = "none",
                   !.index = r.head,
                   !.work = [f \in Files |->
                               IF r.index[f] # Absent \/ r.head[f] # Absent
                               THEN r.head[f] ELSE r.work[f]]]
    ELSE r

\* The remote's commits differ from the local ones on both sides.
Diverged(r) == r.ahead > 0 /\ r.behind > 0

\* The repository's configuration names a remote `name`.
HasRemote(r, name) == name \in DOMAIN r.remotes

\* What `git fetch origin` answers: without a remote "origin" it fails with a
\* text that holds none of the keywords, whatever the network would say.
FetchAnswer(r, ans) == IF HasRemote(r, "origin") THEN ans ELSE ToolFail({})

\* What `git pull origin <branch> [--rebase]` answers on repository r, given the
\* answer `ans` the remote side allows and the change `inc` it brings:
\* without "origin", on a detached HEAD (the fallback passes an empty branch
\* name), with a merge in progress, or when the incoming change would overwrite
\* an untracked file, git fails before integrating; it reports a conflict only
\* when both sides have commits.
PullAnswer(r, ans, inc) ==
    IF ~ans.answers /\ HasRemote(r, "origin") /\ r.inProgress = "none"
    THEN ans
    ELSE IF \/ ~HasRemote(r, "origin")
       \/ r.detached
       \/ r.inProgress # "none"
       \/ (r.behind > 0 /\ inc.file \in UntrackedFiles(r))
    THEN ToolFail(ans.text \ {"conflict"})
    ELSE IF "conflict" \in ans.text /\ ~Diverged(r)
    THEN ToolFail(ans.text \ {"conflict"})
    ELSE ans

\* The repository after `git pull origin <branch> [--rebase]` answered `ans`.
GitPull(r, rebase, ans, inc) ==
    IF ans.ok
    THEN IF r.behind = 0 THEN r
         ELSE LET merged == ~rebase /\ r.ahead > 0 IN
              [r EXCEPT !.born = TRUE,
                        !.ahead = @ + (IF merged THEN 1 ELSE 0),
                        !.behind = 0,
                        !.head[inc.file] = inc.content,
                        !.index[inc.file] = inc.content,
                        !.work[inc.file] = inc.content]
    ELSE IF "conflict" \in ans.text
    THEN [r EXCEPT !.inProgress = IF rebase THEN "rebase" ELSE "merge",
                   !.index[inc.file] = Unmerged,
                   !.work[inc.file] = Markers]
    ELSE r

\* ------------------------------------------------------- operation results
\* Python's None.
None == "None"
NoRet == [success |-> FALSE]
\* An operation's outcome: the repository and the remote after it, the error
\* kind raised (NoError: it returned `ret`), the tool steps it ran in order,
\* and the message of the commit it created (None: it created none).
\* errText: the error text of the tool call whose failure was classified.
\* ignored: the steps whose failure the code caught and passed over.
Raise(r, n, kind, msg, steps) ==
    [repo |-> r, remoteNew |-> n, raised |-> kind, msg |-> msg,
     steps |-> steps, ret |-> NoRet, commitMsg |-> None, errText |-> {},
     ignored |-> {}]
Return(r, n, steps, ret) ==
    [repo |-> r, remoteNew |-> n, raised |-> NoError, msg |-> "",
     steps |-> steps, ret |-> ret, commitMsg |-> None, errText |-> {},
     ignored |-> {}]
\* An error raised for a failed tool call with error text `text`.
RaiseTool(r, n, kind, msg, steps, text) ==
    [Raise(r, n, kind, msg, steps) EXCEPT !.errText = text]

\* A network call of the tool that the remote never answers.  GitPython's
\* fetch, pull and push are called without a timeout and wait for ever; the
\* fallback's subprocess.run carries one, and the TimeoutExpired it raises is
\* wrapped by the operation's outer handler.
NoAnswer(r, n, steps, msg) ==
    IF gitpython THEN Raise(r, n, Blocked, "", steps)
    ELSE Raise(r, n, GitErrorK, msg, steps)

\* _check_git_installed: the probe succeeds.
check_git_installed(git) == git = "ok"
\* Mutant: the path counts as a repository whatever it holds (the rev-parse
\* probe answering for an enclosing repository).
is_git_repo_any(r) == TRUE
\* _is_git_repo
is_git_repo(r) == r.isRepo

\* --------------------------------------------------------------- pull_changes
\* Mutant: the guard looks at the working tree only and misses staged changes.
PullRefusesUnstagedOnly(r) == UnstagedFiles(r) # {}
\* The working-tree guard of pull_changes, per backend.
PullRefusesDirty(r) ==
    IF gitpython THEN is_dirty(r, FALSE) ELSE ~PorcelainEmpty(r)

\* The handler of a conflict reported by the integration step: the code runs
\* `git rebase --abort`, with rebase and with merge alike.
PullAbortOnConflict(r, rebase) == RebaseAbort(r)

\* The part of a failed pull's output the code inspects.  GitPython's error
\* string holds stderr and stdout; the fallback reads stderr alone, and a merge
\* reports its conflicts on stdout (a rebase names them on stderr too).
PullErrorText(text, rebase) ==
    IF gitpython \/ rebase THEN text ELSE text \ {"conflict"}

\* The integration step and its error classification, shared by both backends.
\* The outcome keeps the whole output of git as errText.
PullIntegrate(r, n, rebase, pull, inc, steps) ==
    LET ans == PullAnswer(r, pull, inc)
        r2 == GitPull(r, rebase, ans, inc)
        st == Append(steps, "pull")
        error == PullErrorText(ans.text, rebase)
    IN  IF ~ans.answers
        THEN NoAnswer(r, n, st, "Failed to pull changes")
        ELSE IF ans.ok
        THEN Return(r2, n, st, [success |-> TRUE, rebase |-> rebase])
        ELSE IF "conflict" \in error
        THEN RaiseTool(PullAbortOnConflict(r2, rebase), n, MergeConflictK,
                       "Pull resulted in merge conflicts", Append(st, "abort"),
                       ans.text)
        ELSE IF "authentication" \in error
        THEN RaiseTool(r2, n, AuthenticationK, "Authentication failed", st, ans.text)
        ELSE RaiseTool(r2, n, GitErrorK, "Pull failed", st, ans.text)

\* The GitPython path, after the repository check.
PullPy(r, n, rebase, fetch, pull, inc) ==
    IF PullRefusesDirty(r)
    THEN Raise(r, n, GitErrorK, "Cannot pull with uncommitted changes", <<>>)
    ELSE IF r.detached
    THEN Raise(r, n, GitErrorK, "Cannot pull in detached HEAD state", <<>>)
    ELSE IF ~HasRemote(r, "origin")
    THEN \* repo.remotes.origin raises AttributeError: the outer handler
         Raise(r, n, GitErrorK, "Failed to pull changes", <<>>)
    ELSE IF ~fetch.answers
    THEN NoAnswer(r, n, <<"fetch">>, "Failed to pull changes")
    ELSE IF ~fetch.ok
    THEN IF "authentication" \in fetch.text
         THEN RaiseTool(r, n, AuthenticationK,
                        "Authentication failed during fetch", <<"fetch">>, fetch.text)
         ELSE RaiseTool(r, n, GitErrorK, "Failed to pull changes", <<"fetch">>,
                        fetch.text)
    ELSE LET r1 == GitFetch(r, n) IN
         IF ~r1.upstream
         THEN Raise(r1, 0, GitErrorK, "No upstream branch configured", <<"fetch">>)
         ELSE PullIntegrate(r1, 0, rebase, pull, inc, <<"fetch">>)

\* The subprocess fallback, after the repository check.
PullCli(r, n, rebase, fetch, pull, inc) ==
    IF PullRefusesDirty(r)
    THEN Raise(r, n, GitErrorK, "Cannot pull with uncommitted changes", <<>>)
    ELSE LET fans == FetchAnswer(r, fetch) IN
         IF ~fans.answers
         THEN NoAnswer(r, n, <<"fetch">>, "Failed to pull changes")
         ELSE IF ~fans.ok
         THEN IF "authentication" \in fans.text
              THEN RaiseTool(r, n, AuthenticationK,
                             "Authentication failed during fetch", <<"fetch">>,
                             fans.text)
              ELSE RaiseTool(r, n, GitErrorK, "Fetch failed", <<"fetch">>, fans.text)
         ELSE PullIntegrate(GitFetch(r, n), 0, rebase, pull, inc, <<"fetch">>)

pull_changes(r, n, rebase, git, fetch, pull, inc) ==
    IF ~check_git_installed(git)
    THEN Raise(r, n, GitNotInstalledK, "Git is not installed", <<>>)
    ELSE IF ~is_git_repo(r)
    THEN Raise(r, n, NotAGitRepoK, "not a Git repository", <<>>)
    ELSE IF gitpython
    THEN PullPy(r, n, rebase, fetch, pull, inc)
    ELSE PullCli(r, n, rebase, fetch, pull, inc)


\* --------------------------------------------------------------- push_changes
\* message=None: "Vault sync: " followed by the time of the call.
AutoMessage == "Vault sync: <timestamp>"
UserMessages == {"user message"}
CommitMessage(message) == IF message = None THEN AutoMessage ELSE message

\* What `git push` answers on repository r with n unfetched remote commits,
\* given the answer `ans` the remote side allows: without "origin", with no
\* commit to push, or on a detached HEAD (unless all branches are pushed) git
\* fails with a text that holds no keyword; a remote that has commits the local
\* branch lacks rejects the push.
PushAnswer(r, n, push_all, ans) ==
    IF \/ ~HasRemote(r, "origin")
       \/ ~r.born
       \/ (r.detached /\ ~push_all)
    THEN ToolFail({})
    ELSE IF ans.ok /\ (r.behind > 0 \/ n > 0)
    THEN ToolFail({"rejected"})
    ELSE ans

\* The repository after `git push` answered `ans`.
GitPush(r, ans) == IF ans.ok THEN [r EXCEPT !.ahead = 0] ELSE r

\* The dirtiness test that decides whether push_changes commits.
PushSeesChanges(r) ==
    IF gitpython THEN is_dirty(r, TRUE) ELSE ~PorcelainEmpty(r)

\* Mutant: the authentication test comes before the rejection test.
ClassifyPushErrorAuthFirst(text) ==
    IF "authentication" \in text \/ "permission" \in text THEN AuthenticationK
    ELSE IF "rejected" \in text THEN PushRejectedK
    ELSE GitErrorK
\* The error kind push_changes raises for a failed push with error text `text`.
ClassifyPushError(text) ==
    IF "rejected" \in text THEN PushRejectedK
    ELSE IF "authentication" \in text \/ "permission" \in text THEN AuthenticationK
    ELSE GitErrorK

PushErrorMessage(kind) ==
    IF kind = PushRejectedK THEN "Push was rejected by remote"
    ELSE IF kind = AuthenticationK THEN "Authentication failed during push"
    ELSE "Push failed"

\* The push step and what follows it; `cm` is the message of the commit this
\* call created, None when it created none; `lookupFails`: the GitPython
\* path finds no remote "origin", or no active branch, before it calls git.
PushStep(r, n, push_all, push, steps, cm, lookupFails) ==
    LET st == Append(steps, "push")
        ans == PushAnswer(r, n, push_all, push)
        out == IF lookupFails
               THEN Raise(r, n, GitErrorK, "Failed to push changes", st)
               ELSE IF ~ans.answers
               THEN NoAnswer(r, n, st, "Failed to push changes")
               ELSE IF ans.ok
               THEN Return(GitPush(r, ans), n, st,
                           [success |-> TRUE, committed |-> cm # None,
                            pushed |-> TRUE, commit_message |-> cm])
               ELSE RaiseTool(r, n, ClassifyPushError(ans.text),
                              PushErrorMessage(ClassifyPushError(ans.text)), st,
                              ans.text)
    IN  [out EXCEPT !.commitMsg = cm]

PushPy(r, n, message, push_all, push) ==
    LET lookupFails == ~HasRemote(r, "origin") \/ (r.detached /\ ~push_all) IN
    IF ~PushSeesChanges(r)
    THEN PushStep(r, n, push_all, push, <<>>, None, lookupFails)
    ELSE PushStep(PyCommit(GitAddAll(r)), n, push_all, push,
                  <<"add", "commit">>, message, lookupFails)

PushCli(r, n, message, push_all, push) ==
    IF ~PushSeesChanges(r)
    THEN PushStep(r, n, push_all, push, <<>>, None, FALSE)
    ELSE LET r1 == GitAddAll(r) IN
         IF ~CliCommitOk(r1)
         THEN \* check=True: CalledProcessError, wrapped by the outer handler
              Raise(r1, n, GitErrorK, "Failed to push changes", <<"add", "commit">>)
         ELSE PushStep(CliCommit(r1), n, push_all, push,
                       <<"add", "commit">>, message, FALSE)

push_changes(r, n, message, push_all, git, push) ==
    IF ~check_git_installed(git)
    THEN Raise(r, n, GitNotInstalledK, "Git is not installed", <<>>)
    ELSE IF ~is_git_repo(r)
    THEN Raise(r, n, NotAGitRepoK, "not a Git repository", <<>>)
    ELSE IF gitpython
    THEN PushPy(r, n, CommitMessage(message), push_all, push)
    ELSE PushCli(r, n, CommitMessage(message), push_all, push)


\* ----------------------------------------------------------------- quick_sync
\* `except GitError` catches every error kind of the module.
IsGitError(kind) ==
    kind \in {GitErrorK, GitNotInstalledK, NotAGitRepoK, MergeConflictK,
              AuthenticationK, PushRejectedK}

\* One stage's entry in the operations map: the stage's result, or its error
\* (the kind of the exception, and str(e), its message).
StageEntry(out) ==
    IF out.raised = NoError THEN [error |-> None, message |-> "", result |-> out.ret]
    ELSE [error |-> out.raised, message |-> out.msg, result |-> NoRet]

\* Mutant: the pull stage's error is recorded and the push stage runs anyway.
SyncPushesAlways(p) == TRUE
\* Does quick_sync go on to push_changes after this pull outcome?
SyncPushesAfter(p) == p.raised = NoError

quick_sync(r, n, message, git, fetch, pull, inc, push) ==
    LET p == pull_changes(r, n, TRUE, git, fetch, pull, inc)
        q == push_changes(p.repo, p.remoteNew, message, FALSE, git, push)
    IN  IF ~SyncPushesAfter(p)
        THEN IF IsGitError(p.raised)
             THEN [Return(p.repo, p.remoteNew, p.steps,
                          [success |-> FALSE,
                           operations |-> [s \in {"pull"} |-> StageEntry(p)]])
                   EXCEPT !.commitMsg = p.commitMsg]
             ELSE p
        ELSE IF q.raised = NoError \/ IsGitError(q.raised)
        THEN [Return(q.repo, q.remoteNew, p.steps \o q.steps,
                     [success |-> q.raised = NoError,
                      operations |-> [s \in {"pull", "push"} |->
                                        IF s = "pull" THEN StageEntry(p)
                                        ELSE StageEntry(q)]])
              EXCEPT !.commitMsg = q.commitMsg]
        ELSE [q EXCEPT !.steps = p.steps \o q.steps]

\* ------------------------------------------------------------ get_repo_status
\* RepoStatus(is_git_repo=...) with the dataclass defaults; __post_init__
\* turns the three absent lists into empty ones.
RepoStatus(is_repo) ==
    [is_git_repo |-> is_repo, branch |-> None, has_uncommitted_changes |-> FALSE,
     untracked_files |-> {}, modified_files |-> {}, staged_files |-> {},
     commits_ahead |-> 0, commits_behind |-> 0, upstream_branch |-> None,
     can_fast_forward |-> FALSE, has_conflicts |-> FALSE]

\* RepoStatus.is_clean
is_clean(s) ==
    /\ ~s.has_uncommitted_changes
    /\ s.untracked_files = {}
    /\ s.modified_files = {}
    /\ s.staged_files = {}

\* Mutant: the branch of a repository is not found.
BranchUnknown == None
BranchName == "main"
UpstreamName == "origin/main"

\* GitPython path: index.diff(None) entries of change type M or T.
PyModified(r) ==
    {f \in Files : /\ r.index[f] \notin {Absent, Unmerged}
                   /\ r.work[f] # Absent
                   /\ r.work[f] # r.index[f]}
\* GitPython path: index.diff("HEAD") entries of type A, M, D, R or T; with no
\* commit yet, every index entry.
PyStaged(r) ==
    IF r.born
    THEN {f \in Files : r.index[f] # r.head[f] /\ r.index[f] # Unmerged}
    ELSE {f \in Files : r.index[f] # Absent}

\* Mutant: the refresh integrates what it fetched, as a pull would.
StatusPulls(r, n, fetched) ==
    IF fetched /\ r.behind + n > 0
    THEN [r EXCEPT !.behind = 0, !.born = TRUE,
                   !.head = [f \in Files |-> "v2"],
                   !.index = [f \in Files |-> "v2"],
                   !.work = [f \in Files |-> "v2"]]
    ELSE r
\* The repository after the refresh of the remote-tracking refs.
StatusFetch(r, n, fetched) == IF fetched THEN GitFetch(r, n) ELSE r

StatusPy(r, n, fetch) ==
    LET tracked == ~r.detached /\ r.upstream
        fetched == tracked /\ HasRemote(r, "origin") /\ fetch.ok
        r1 == StatusFetch(r, n, fetched)
        n1 == IF fetched THEN 0 ELSE n
        st == IF tracked /\ HasRemote(r, "origin") THEN <<"fetch">> ELSE <<>>
        untracked == UntrackedFiles(r1)
        modified == PyModified(r1)
        staged == PyStaged(r1)
    IN  IF tracked /\ HasRemote(r, "origin") /\ ~fetch.answers
        THEN NoAnswer(r, n, st, "")
        ELSE
        [Return(r1, n1, st,
             [is_git_repo |-> TRUE,
             branch |-> IF r1.detached THEN None ELSE BranchName,
             has_uncommitted_changes |->
                 untracked # {} \/ modified # {} \/ staged # {},
             untracked_files |-> untracked,
             modified_files |-> modified,
             staged_files |-> staged,
             commits_ahead |-> IF tracked THEN r1.ahead ELSE 0,
             commits_behind |-> IF tracked THEN r1.behind ELSE 0,
             upstream_branch |-> IF tracked THEN UpstreamName ELSE None,
             can_fast_forward |-> tracked /\ r1.ahead = 0,
             has_conflicts |-> UnmergedFiles(r1) # {}])
            EXCEPT !.ignored = IF tracked /\ ~fetched THEN {"fetch"} ELSE {}]

\* `git status --porcelain`: the two status letters of a tracked path.
PorcelainX(r, f) ==
    IF r.index[f] = Unmerged THEN "U"
    ELSE IF r.index[f] = r.head[f] THEN " "
    ELSE IF r.head[f] = Absent THEN "A"
    ELSE IF r.index[f] = Absent THEN "D"
    ELSE "M"
PorcelainY(r, f) ==
    IF r.index[f] = Unmerged THEN "U"
    ELSE IF r.index[f] = Absent \/ r.work[f] = r.index[f] THEN " "
    ELSE IF r.work[f] = Absent THEN "D"
    ELSE "M"
\* The paths that have a line of their own with letters other than "??".
PorcelainListed(r) ==
    {f \in Files : PorcelainX(r, f) # " " \/ PorcelainY(r, f) # " "}

\* Subprocess fallback: the classification of the porcelain lines.
CliStaged(r) ==
    {f \in PorcelainListed(r) :
        PorcelainX(r, f) \in {"A", "M", "D"} /\ PorcelainY(r, f) = " "}
CliModified(r) ==
    {f \in PorcelainListed(r) \ CliStaged(r) :
        PorcelainX(r, f) \in {" ", "M", "D"} \/ PorcelainY(r, f) \in {"M", "D"}}
CliConflicts(r) ==
    {f \in (PorcelainListed(r) \ CliStaged(r)) \ CliModified(r) :
        PorcelainX(r, f) = "U" \/ PorcelainY(r, f) = "U"}

StatusCli(r, n) ==
    LET tracked == ~r.detached /\ r.upstream
        untracked == UntrackedFiles(r)
        modified == CliModified(r)
        staged == CliStaged(r)
    IN  Return(r, n, <<>>,
               [is_git_repo |-> TRUE,
                branch |-> IF r.detached THEN "" ELSE BranchName,
                has_uncommitted_changes |->
                    untracked # {} \/ modified # {} \/ staged # {},
                untracked_files |-> untracked,
                modified_files |-> modified,
                staged_files |-> staged,
                commits_ahead |-> IF tracked THEN r.ahead ELSE 0,
                commits_behind |-> IF tracked THEN r.behind ELSE 0,
                upstream_branch |-> IF tracked THEN UpstreamName ELSE None,
                can_fast_forward |-> FALSE,
                has_conflicts |-> CliConflicts(r) # {}])

\* What get_repo_status does when the probe of git fails: _check_git_installed
\* is called outside every handler, so its GitNotInstalledError leaves the call.
StatusWithoutGit(r, n) ==
    Raise(r, n, GitNotInstalledK, "Git is not installed", <<>>)

\* Mutant: the error the docstring announces is raised.
StatusOfNonRepoRaises(r, n) ==
    Raise(r, n, NotAGitRepoK, "not a Git repository", <<>>)
\* What get_repo_status answers for a path that holds no repository.
StatusOfNonRepo(r, n) == Return(r, n, <<>>, RepoStatus(FALSE))

get_repo_status(r, n, git, fetch) ==
    IF ~check_git_installed(git) THEN StatusWithoutGit(r, n)
    ELSE IF ~is_git_repo(r) THEN StatusOfNonRepo(r, n)
    ELSE IF gitpython THEN StatusPy(r, n, fetch)
    ELSE StatusCli(r, n)

\* wrappers.GitOperations.get_status: reads status.remote_url, which RepoStatus
\* does not have, and calls the property is_clean: an AttributeError whenever
\* get_repo_status returned.
wrapper_get_status(r, n, git, fetch) ==
    LET s == get_repo_status(r, n, git, fetch) IN
    IF s.raised # NoError THEN s
    ELSE Raise(s.repo, s.remoteNew, OtherExceptionK,
               "'RepoStatus' object has no attribute 'remote_url'", s.steps)


\* --------------------------------------------------------------- setup_remote
\* A URL: the part up to the owner, the rest, and whether the caller's string
\* carries surrounding white space.
RemoteNames == {"origin"}
UrlPrefixes == {"https://github.com/", "https://gitlab.com/",
                "https://example.org/", "git@github.com:", "git@gitlab.com:"}
UrlPaths == {"acme/notes.git", "acme/notes"}
Url(prefix, path, padded) == [prefix |-> prefix, path |-> path, padded |-> padded]
AuthMethods == {"ssh", "https", "token"}

\* url.strip(), then the HTTPS-to-SSH rewrite of the two known hosts.
NormalizeUrl(url, auth_method) ==
    LET u == [url EXCEPT !.padded = FALSE] IN
    IF auth_method = "ssh" /\ u.prefix = "https://github.com/"
    THEN [u EXCEPT !.prefix = "git@github.com:"]
    ELSE IF auth_method = "ssh" /\ u.prefix = "https://gitlab.com/"
    THEN [u EXCEPT !.prefix = "git@gitlab.com:"]
    ELSE u

\* The remotes with `name` set to `url`.
WithRemote(r, name, url) ==
    [r EXCEPT !.remotes = [x \in DOMAIN r.remotes \cup {name} |->
                              IF x = name THEN url ELSE r.remotes[x]]]

\* updated: the result carries the key "updated" (its value is then True).
RemoteRet(name, url, created, updated) ==
    [success |-> TRUE, remote_name |-> name, url |-> url,
     created |-> created, updated |-> updated]

\* The repository after setup_remote found no remote `name`: the GitPython
\* path calls create_remote; the fallback runs no `git remote add` at all.
SetupCreates(r, name, url) ==
    IF gitpython THEN WithRemote(r, name, url) ELSE r

setup_remote(r, n, remote_url, remote_name, auth_method, git) ==
    LET url == NormalizeUrl(remote_url, auth_method) IN
    IF ~check_git_installed(git)
    THEN Raise(r, n, GitNotInstalledK, "Git is not installed", <<>>)
    ELSE IF ~is_git_repo(r)
    THEN Raise(r, n, NotAGitRepoK, "not a Git repository", <<>>)
    ELSE IF auth_method \notin {"ssh", "https"}
    THEN Raise(r, n, GitErrorK, "Unknown auth method", <<>>)
    ELSE IF HasRemote(r, remote_name)
    THEN IF r.remotes[remote_name] = url
         THEN Return(r, n, <<>>, RemoteRet(remote_name, url, FALSE, FALSE))
         ELSE Return(WithRemote(r, remote_name, url), n, <<"set-url">>,
                     RemoteRet(remote_name, url, FALSE, TRUE))
    ELSE Return(SetupCreates(r, remote_name, url), n,
                IF gitpython THEN <<"remote-add">> ELSE <<>>,
                RemoteRet(remote_name, url, TRUE, FALSE))

\* wrappers.GitOperations.add_remote: the auth method is read off the URL and
\* handed to setup_remote as its third positional argument, which is
\* remote_name; `name` is not used and auth_method keeps its default "ssh".
UrlAuthMethod(url) == IF url.prefix \in {"git@github.com:", "git@gitlab.com:"}
                      THEN "ssh" ELSE "https"
wrapper_add_remote(r, n, name, url, git) ==
    setup_remote(r, n, url, UrlAuthMethod(url), "ssh", git)
\* GitOperations.setup_remote (wrappers.py and git_operations.py): the same
\* positional call with the caller's auth_method.
wrapper_setup_remote(r, n, url, auth_method, git) ==
    setup_remote(r, n, url, auth_method, "ssh", git)

\* ------------------------------------------------------------- initial_commit
DefaultInitialMessage == "Initial commit: Obsidian vault setup"

CommitRet(committed, pushed, message) ==
    [success |-> TRUE, committed |-> committed, pushed |-> pushed,
     commit_message |-> message]

\* GitPython path: any push error that is not a rejection is reported as an
\* authentication failure.
ClassifyInitialPushErrorPy(text) ==
    IF "rejected" \in text THEN PushRejectedK ELSE AuthenticationK

InitialPy(r, n, message, push, pushAns) ==
    IF r.born /\ ~is_dirty(r, TRUE)
    THEN Return(r, n, <<>>, CommitRet(FALSE, None, None))
    ELSE LET r1 == GitAddAll(r) IN
         IF ~(is_dirty(r1, FALSE) \/ UntrackedFiles(r1) # {})
         THEN Return(r1, n, <<"add">>, CommitRet(FALSE, None, None))
         ELSE LET r2 == PyCommit(r1)
                  st == <<"add", "commit">>
                  ans == PushAnswer(r2, n, FALSE, pushAns)
                  out ==
                    IF ~push \/ ~HasRemote(r2, "origin")
                    THEN Return(r2, n, st, CommitRet(TRUE, FALSE, message))
                    ELSE IF r2.detached
                    THEN Raise(r2, n, GitErrorK,
                               "Failed to create initial commit", st)
                    ELSE IF ans.ok
                    THEN Return(GitPush(r2, ans), n, Append(st, "push"),
                                CommitRet(TRUE, TRUE, message))
                    ELSE RaiseTool(r2, n, ClassifyInitialPushErrorPy(ans.text),
                                   "push failed", Append(st, "push"), ans.text)
              IN [out EXCEPT !.commitMsg = message]

InitialCli(r, n, message, push, pushAns) ==
    IF PorcelainEmpty(r)
    THEN Return(r, n, <<>>, CommitRet(FALSE, None, None))
    ELSE LET r1 == GitAddAll(r) IN
         IF ~CliCommitOk(r1)
         THEN Raise(r1, n, GitErrorK, "Failed to create initial commit",
                    <<"add", "commit">>)
         ELSE LET r2 == CliCommit(r1)
                  st == <<"add", "commit">>
                  ans == PushAnswer(r2, n, FALSE, pushAns)
                  out ==
                    IF ~push
                    THEN Return(r2, n, st, CommitRet(TRUE, FALSE, message))
                    ELSE IF ans.ok
                    THEN Return(GitPush(r2, ans), n, Append(st, "push"),
                                CommitRet(TRUE, TRUE, message))
                    ELSE IF "rejected" \in ans.text
                    THEN RaiseTool(r2, n, PushRejectedK, "push rejected",
                                   Append(st, "push"), ans.text)
                    ELSE IF "authentication" \in ans.text \/ "permission" \in ans.text
                    THEN RaiseTool(r2, n, AuthenticationK, "push failed",
                                   Append(st, "push"), ans.text)
                    ELSE \* any other failure of the push is passed over
                         [Return(r2, n, Append(st, "push"),
                                 CommitRet(TRUE, FALSE, message))
                          EXCEPT !.errText = ans.text, !.ignored = {"push"}]
              IN [out EXCEPT !.commitMsg = message]

initial_commit(r, n, message, push, git, pushAns) ==
    IF ~check_git_installed(git)
    THEN Raise(r, n, GitNotInstalledK, "Git is not installed", <<>>)
    ELSE IF ~is_git_repo(r)
    THEN Raise(r, n, NotAGitRepoK, "not a Git repository", <<>>)
    ELSE IF gitpython
    THEN InitialPy(r, n, message, push, pushAns)
    ELSE InitialCli(r, n, message, push, pushAns)

\* -------------------------------------------------------- configure_gitignore
DEFAULT_GITIGNORE == "# Obsidian Git Ignore ..."
\* custom_patterns; None and the empty list alike are <<>>.
CustomPatterns == {<<>>, <<"*.secret">>, <<"*.secret", "private/">>}

\* The content written: the template, then the custom patterns under a header.
IgnoreContent(custom_patterns) ==
    IF custom_patterns = <<>> THEN <<DEFAULT_GITIGNORE>>
    ELSE <<DEFAULT_GITIGNORE, "# Custom patterns">> \o custom_patterns

\* Mutant: an existing file is kept whatever `overwrite` says.
IgnoreKeptAlways(r, overwrite) == r.gitignore.exists
\* The file exists and is not to be overwritten.
IgnoreKept(r, overwrite) == r.gitignore.exists /\ ~overwrite

configure_gitignore(r, n, custom_patterns, overwrite) ==
    IF IgnoreKept(r, overwrite)
    THEN Return(r, n, <<>>, [success |-> TRUE, created |-> FALSE])
    ELSE Return([r EXCEPT !.gitignore = IgnoreFile(IgnoreContent(custom_patterns))],
                n, <<"write">>, [success |-> TRUE, created |-> TRUE])

\* -------------------------------------------------------------- init_git_repo
\* Creates the directory when missing; initializes unless already a repository.
init_git_repo(r, n, git) ==
    IF ~check_git_installed(git)
    THEN Raise(r, n, GitNotInstalledK, "Git is not installed", <<>>)
    ELSE IF is_git_repo(r)
    THEN Return(r, n, <<>>, [success |-> TRUE, was_already_init |-> TRUE])
    ELSE Return(GitInit(r), n, <<"init">>,
                [success |-> TRUE, was_already_init |-> FALSE])


\* ---------------------------------------------------------------------- Doctor
\* What the checks read besides the repository: whether git's configuration
\* holds user.name and user.email, whether ~/.ssh holds a key file id_*, and
\* whether the vault holds a file with one of the large extensions.
Hosts == [name : BOOLEAN, email : BOOLEAN, sshKey : BOOLEAN, largeFiles : BOOLEAN]
UsualHost == [name |-> TRUE, email |-> TRUE, sshKey |-> TRUE, largeFiles |-> FALSE]

\* The checks in the order run_checks calls them.
CheckOrder ==
    <<"git_initialized", "gitignore_exists", "remote_configured", "user_config",
      "ssh_key", "large_files">>
\* An issue, with the check that appended it; fixed: the key "fixed" is set.
Issue(check, severity, message, fixable, fix_action) ==
    [check |-> check, severity |-> severity, message |-> message,
     fixable |-> fixable, fix_action |-> fix_action, fixed |-> FALSE]
When(cond, issue) == IF cond THEN <<issue>> ELSE <<>>

check_git_initialized(r) ==
    When(~r.own, Issue("git_initialized", "error",
                       "Git repository not initialized", TRUE, "init"))
check_gitignore_exists(r) ==
    When(~r.gitignore.exists,
         Issue("gitignore_exists", "warning", ".gitignore not found", TRUE,
               "gitignore"))
check_remote_configured(r) ==
    When(r.own /\ DOMAIN r.remotes = {},
         Issue("remote_configured", "warning", "No remote repository configured",
               FALSE, None))
check_user_config(r, h) ==
    When(r.own /\ ~h.name,
         Issue("user_config", "warning", "Git user.name not configured", TRUE,
               "user_config"))
    \o When(r.own /\ ~h.email,
            Issue("user_config", "warning", "Git user.email not configured", TRUE,
                  "user_config"))
check_ssh_key(h) ==
    When(~h.sshKey, Issue("ssh_key", "info", "No SSH keys found", FALSE, None))
check_large_files(h) ==
    When(h.largeFiles,
         Issue("large_files", "warning",
               "Found large file(s) that may not belong in Git", FALSE, None))

\* The issues of one run, before any fix.
Checks(r, h) ==
    check_git_initialized(r) \o check_gitignore_exists(r)
    \o check_remote_configured(r) \o check_user_config(r, h)
    \o check_ssh_key(h) \o check_large_files(h)

\* _attempt_fixes from issue i on.  `steps` are the mutating operations invoked
\* so far.  The fixes "init" and "gitignore" import GitOperations from git_ops
\* and ObsidianConfig from obsidian_config, which do not define them: the
\* ImportError leaves the loop and run_checks.  The identity fix catches
\* GitCommandError only; a configuration file that cannot be written (locked:
\* an OSError) leaves the loop as well.
RECURSIVE AttemptFixes(_, _, _, _, _, _, _)
AttemptFixes(r, n, h, issues, i, steps, locked) ==
    IF i > Len(issues)
    THEN [out |-> Return(r, n, steps, [success |-> TRUE, issues |-> issues]),
          host |-> h]
    ELSE IF ~issues[i].fixable
    THEN AttemptFixes(r, n, h, issues, i + 1, steps, locked)
    ELSE IF issues[i].fix_action = "init"
    THEN [out |-> Raise(r, n, OtherExceptionK,
                        "cannot import name 'GitOperations'", steps),
          host |-> h]
    ELSE IF issues[i].fix_action = "gitignore"
    THEN [out |-> Raise(r, n, OtherExceptionK,
                        "cannot import name 'ObsidianConfig'", steps),
          host |-> h]
    ELSE IF locked
    THEN [out |-> Raise(r, n, OtherExceptionK, "could not lock config file",
                        Append(steps, "set_identity")),
          host |-> h]
    ELSE AttemptFixes(r, n, [h EXCEPT !.name = TRUE, !.email = TRUE],
                      [issues EXCEPT ![i].fixed = TRUE], i + 1,
                      Append(steps, "set_identity"), locked)

run_checks(r, n, h, fix, locked) ==
    IF fix THEN AttemptFixes(r, n, h, Checks(r, h), 1, <<>>, locked)
    ELSE [out |-> Return(r, n, <<>>, [success |-> TRUE, issues |-> Checks(r, h)]),
          host |-> h]


\* ------------------------------------------------------------------- the state
\* Inputs of the operations, as `last` records them.
NoArgs ==
    [git |-> "ok", rebase |-> FALSE, message |-> None,
     remote_url |-> None, remote_name |-> None, auth_method |-> None,
     custom_patterns |-> <<>>, overwrite |-> FALSE, fix |-> FALSE]

Idle ==
    [op |-> "none", arg |-> NoArgs, pre |-> NoRepo, preNew |-> 0,
     raised |-> NoError, msg |-> "", steps |-> <<>>, ret |-> NoRet,
     commitMsg |-> None, errText |-> {}, ignored |-> {}]

Init ==
    /\ gitpython \in BOOLEAN
    /\ repo = NoRepo
    /\ remoteNew = 0
    /\ last = Idle
    /\ host = UsualHost

\* The program ran operation `op` with inputs `arg` and outcome `out`.
Ran(op, arg, out) ==
    /\ out.repo.ahead <= MaxAhead
    /\ repo' = out.repo
    /\ remoteNew' = out.remoteNew
    /\ last' = [op |-> op, arg |-> arg, pre |-> repo, preNew |-> remoteNew,
                raised |-> out.raised, msg |-> out.msg, steps |-> out.steps,
                ret |-> out.ret, commitMsg |-> out.commitMsg,
                errText |-> out.errText, ignored |-> out.ignored]
    /\ UNCHANGED <<gitpython, host>>

\* Something outside the program changed the directory, the repository or the
\* remote to r and n.
Outside(r, n) ==
    /\ repo' = r
    /\ remoteNew' = n
    /\ last' = [Idle EXCEPT !.op = "outside"]
    /\ UNCHANGED <<gitpython, host>>

\* Input sets of the actions.  The answer of a tool call that is never made
\* does not matter: the sets below keep one answer for it.
ProbeEnv == {"ok", "missing"}
StatusEnv == {"ok", "missing", "timeout"}
Messages == UserMessages \cup {None}
\* The commit message is read only when the call gets as far as committing.
MessagesFor(r, git) ==
    IF git = "ok" /\ r.isRepo /\ ~PorcelainEmpty(r) THEN Messages ELSE {None}
LocalVersions == {"v1"}
Incoming == [file : Files, content : {"v2"}]
Only(cond, answers) == IF cond THEN answers ELSE {ToolOk}
Reachable(r, git) == git = "ok" /\ r.isRepo /\ HasRemote(r, "origin")

\* ------------------------------------------------------ the program's actions
InitGitRepo ==
    \E git \in ProbeEnv :
        Ran("init_git_repo", [NoArgs EXCEPT !.git = git],
            init_git_repo(repo, remoteNew, git))

SetupRemoteWith(urls, names, auths) ==
    \E url \in urls, name \in names, auth \in auths, git \in ProbeEnv :
        Ran("setup_remote",
            [NoArgs EXCEPT !.git = git, !.remote_url = url,
                           !.remote_name = name, !.auth_method = auth],
            setup_remote(repo, remoteNew, url, name, auth, git))

ConfigureGitignore ==
    \E custom \in CustomPatterns, overwrite \in BOOLEAN :
        Ran("configure_gitignore",
            [NoArgs EXCEPT !.custom_patterns = custom, !.overwrite = overwrite],
            configure_gitignore(repo, remoteNew, custom, overwrite))

\* Doctor.run_checks; the module imports GitPython when it is loaded.
RunChecks ==
    \E fix \in BOOLEAN, locked \in BOOLEAN :
        LET d == run_checks(repo, remoteNew, host, fix, locked) IN
        /\ gitpython
        /\ repo' = d.out.repo
        /\ remoteNew' = d.out.remoteNew
        /\ host' = d.host
        /\ last' = [op |-> "run_checks", arg |-> [NoArgs EXCEPT !.fix = fix],
                    pre |-> repo, preNew |-> remoteNew,
                    raised |-> d.out.raised, msg |-> d.out.msg,
                    steps |-> d.out.steps, ret |-> d.out.ret,
                    commitMsg |-> d.out.commitMsg, errText |-> d.out.errText,
                    ignored |-> d.out.ignored]
        /\ UNCHANGED gitpython

WrapperUrls ==
    {Url("https://github.com/", "acme/notes", FALSE),
     Url("git@github.com:", "acme/notes", FALSE)}
WrapperAddRemote ==
    \E name \in {"origin", "backup"}, url \in WrapperUrls, git \in ProbeEnv :
        Ran("add_remote",
            [NoArgs EXCEPT !.git = git, !.remote_url = url, !.remote_name = name],
            wrapper_add_remote(repo, remoteNew, name, url, git))
WrapperSetupRemote ==
    \E url \in WrapperUrls, auth \in {"ssh", "https"}, git \in ProbeEnv :
        Ran("wrapper_setup_remote",
            [NoArgs EXCEPT !.git = git, !.remote_url = url, !.auth_method = auth],
            wrapper_setup_remote(repo, remoteNew, url, auth, git))

SyncUrls == {Url("https://github.com/", "acme/notes.git", FALSE)}

SetupRemote == SetupRemoteWith(SyncUrls, {"origin"}, {"ssh", "token"})

InitialCommit ==
    \E push \in BOOLEAN, git \in ProbeEnv :
        \E ans \in Only(push /\ Reachable(repo, git), PushAnswers) :
            Ran("initial_commit", [NoArgs EXCEPT !.git = git],
                initial_commit(repo, remoteNew, DefaultInitialMessage, push, git, ans))

GetRepoStatusWith(envs, fetches) ==
    \E git \in envs :
        \E fetch \in Only(Reachable(repo, git) /\ repo.upstream, fetches) :
            Ran("get_repo_status", [NoArgs EXCEPT !.git = git],
                get_repo_status(repo, remoteNew, git, fetch))
GetRepoStatus == GetRepoStatusWith(StatusEnv, FetchAnswers)

WrapperGetStatus ==
    \E git \in ProbeEnv :
        \E fetch \in Only(Reachable(repo, git) /\ repo.upstream, FetchAnswers) :
            Ran("wrapper_get_status", [NoArgs EXCEPT !.git = git],
                wrapper_get_status(repo, remoteNew, git, fetch))

PullChangesWith(fetches, pulls) ==
    \E rebase \in BOOLEAN, git \in ProbeEnv, inc \in Incoming :
        \E fetch \in Only(Reachable(repo, git), fetches) :
            \E pull \in Only(Reachable(repo, git) /\ fetch.ok, pulls) :
                Ran("pull_changes", [NoArgs EXCEPT !.git = git, !.rebase = rebase],
                    pull_changes(repo, remoteNew, rebase, git, fetch, pull, inc))
PullChanges == PullChangesWith(FetchAnswers, PullAnswers)

PushChangesWith(pushes) ==
    \E push_all \in BOOLEAN, git \in ProbeEnv :
        \E message \in MessagesFor(repo, git),
           push \in Only(Reachable(repo, git), pushes) :
            Ran("push_changes", [NoArgs EXCEPT !.git = git, !.message = message],
                push_changes(repo, remoteNew, message, push_all, git, push))
PushChanges == PushChangesWith(PushAnswers)

QuickSync ==
    \E git \in ProbeEnv, inc \in Incoming :
        \E message \in MessagesFor(repo, git),
           fetch \in Only(Reachable(repo, git), FetchAnswers) :
            \E pull \in Only(Reachable(repo, git) /\ fetch.ok, PullAnswers) :
                \E push \in Only(Reachable(repo, git) /\ pull.ok, PushAnswers) :
                    Ran("quick_sync",
                        [NoArgs EXCEPT !.git = git, !.message = message],
                        quick_sync(repo, remoteNew, message, git, fetch, pull,
                                   inc, push))

\* ------------------------------------------------- what happens around it
\* The user writes or deletes a note.
WriteFile ==
    \E f \in Files, c \in LocalVersions \cup {Absent} :
        /\ repo.work[f] # c
        /\ Outside([repo EXCEPT !.work[f] = c], remoteNew)

\* `git add <file>`.
StageFile ==
    \E f \in Files :
        /\ repo.isRepo
        /\ repo.index[f] # repo.work[f]
        /\ Outside([repo EXCEPT !.index[f] = repo.work[f]], remoteNew)

\* The user writes a .gitignore of their own, or deletes the file.
UserIgnoreFiles == {NoIgnoreFile, IgnoreFile(<<"drafts/">>)}
EditGitignore ==
    \E g \in UserIgnoreFiles :
        /\ repo.gitignore # g
        /\ Outside([repo EXCEPT !.gitignore = g], remoteNew)

\* `git remote add origin <url>`, typed by the user.
GitRemoteAdd ==
    \E url \in SyncUrls :
        /\ repo.isRepo /\ ~HasRemote(repo, "origin")
        /\ Outside(WithRemote(repo, "origin", url), remoteNew)

\* `git branch --set-upstream-to=origin/<branch>`.
SetUpstream ==
    /\ repo.isRepo /\ HasRemote(repo, "origin") /\ repo.born
    /\ ~repo.upstream
    /\ Outside([repo EXCEPT !.upstream = TRUE], remoteNew)

\* `git checkout --detach`, and back to the branch.
DetachHead ==
    /\ repo.isRepo /\ repo.born
    /\ Outside([repo EXCEPT !.detached = ~@], remoteNew)

\* Another device pushes a commit to the remote.
RemoteAdvance ==
    /\ HasRemote(repo, "origin")
    /\ repo.behind + remoteNew < MaxBehind
    /\ Outside(repo, remoteNew + 1)

Next ==
    \/ InitGitRepo
    \/ SetupRemote
    \/ InitialCommit
    \/ GetRepoStatus
    \/ WrapperGetStatus
    \/ PullChanges
    \/ PushChanges
    \/ QuickSync
    \/ WriteFile
    \/ StageFile
    \/ GitRemoteAdd
    \/ SetUpstream
    \/ RemoteAdvance

Spec == Init /\ [][Next]_vars

\* The remotes alone: setup_remote over several URLs, names and methods.
RemoteUrls ==
    {Url(p, q, padded) : p \in UrlPrefixes \ {"git@gitlab.com:"},
                         q \in UrlPaths, padded \in BOOLEAN}
SetupAnyRemote == SetupRemoteWith(RemoteUrls, {"origin", "backup"}, AuthMethods)
NextRemote == InitGitRepo \/ SetupAnyRemote \/ GitRemoteAdd
SpecRemote == Init /\ [][NextRemote]_vars

\* The ignore file alone.
NextIgnore == InitGitRepo \/ ConfigureGitignore \/ EditGitignore
SpecIgnore == Init /\ [][NextIgnore]_vars

\* A vault directory inside the working tree of another repository, freshly
\* initialized: the path has no .git of its own and git finds the enclosing one.
InitNested ==
    /\ gitpython \in BOOLEAN
    /\ repo = [GitInit(NoRepo) EXCEPT !.own = FALSE]
    /\ remoteNew = 0
    /\ last = Idle
    /\ host = UsualHost
NextNested ==
    InitGitRepo \/ InitialCommit \/ GetRepoStatus \/ WriteFile \/ StageFile
SpecNested == InitNested /\ [][NextNested]_vars

\* The same, with a user who also detaches HEAD.
\* The remote may stay silent: a network call is answered or never ends.
SilentAnswers == {ToolOk, ToolSilent}
StatusOfSilentRemote == GetRepoStatusWith({"ok"}, SilentAnswers)
PullFromSilentRemote == PullChangesWith(SilentAnswers, SilentAnswers)
PushToSilentRemote == PushChangesWith(SilentAnswers)
NextSilent ==
    \/ InitGitRepo
    \/ InitialCommit
    \/ StatusOfSilentRemote
    \/ PullFromSilentRemote
    \/ PushToSilentRemote
    \/ WriteFile
    \/ GitRemoteAdd
    \/ SetUpstream
    \/ RemoteAdvance
SpecSilent == Init /\ [][NextSilent]_vars

\* The doctor on a vault that is set up step by step, on any host.
HostChanges ==
    \E h \in Hosts :
        /\ h # host
        /\ host' = h
        /\ last' = [Idle EXCEPT !.op = "outside"]
        /\ UNCHANGED <<gitpython, repo, remoteNew>>
InitDoctor ==
    /\ gitpython = TRUE
    /\ repo = NoRepo
    /\ remoteNew = 0
    /\ last = Idle
    /\ host \in Hosts
NextDoctor ==
    \/ RunChecks
    \/ InitGitRepo
    \/ ConfigureGitignore
    \/ GitRemoteAdd
    \/ HostChanges
SpecDoctor == InitDoctor /\ [][NextDoctor]_vars

\* Remotes that refuse the caller, with each wording of the refusal.
RefusalAnswers ==
    {ToolOk} \cup {ToolFail(t) : t \in {{}, {"authentication"}, {"permission"}}}
PullFromRefusingRemote == PullChangesWith(RefusalAnswers, RefusalAnswers)
PushToRefusingRemote == PushChangesWith(RefusalAnswers)
NextRefusal ==
    \/ InitGitRepo
    \/ InitialCommit
    \/ PullFromRefusingRemote
    \/ PushToRefusingRemote
    \/ WriteFile
    \/ GitRemoteAdd
    \/ SetUpstream
    \/ RemoteAdvance
SpecRefusal == Init /\ [][NextRefusal]_vars

\* The wrappers' remote configuration on a repository.
NextWrappers ==
    \/ InitGitRepo
    \/ WrapperAddRemote
    \/ WrapperSetupRemote
    \/ GitRemoteAdd
SpecWrappers == Init /\ [][NextWrappers]_vars

NextDetached == Next \/ DetachHead
SpecDetached == Init /\ [][NextDetached]_vars

\* ------------------------------------------------------------------- claims
\* The last operation was `op`, the probe of git succeeded and the path held
\* a repository.
On(op) == last.op = op /\ last.arg.git = "ok" /\ last.pre.isRepo
\* The branch tip, the index and the working tree are those before the call,
\* and nothing is in progress or unmerged.
TreeAsBefore ==
    /\ repo.head = last.pre.head /\ repo.born = last.pre.born
    /\ repo.ahead = last.pre.ahead /\ repo.detached = last.pre.detached
    /\ repo.index = last.pre.index
    /\ repo.work = last.pre.work
    /\ repo.inProgress = "none"
    /\ UnmergedFiles(repo) = {}
LastStep == IF last.steps = <<>> THEN None ELSE last.steps[Len(last.steps)]
Ran2(step) == \E i \in DOMAIN last.steps : last.steps[i] = step
RanNext(step) == \E i \in DOMAIN last'.steps : last'.steps[i] = step

\* C1: when pull_changes fetched and the integration step reported a conflict,
\* with rebase and with merge alike MergeConflictError is raised and the
\* repository is as before the call: same tip, index and working tree, no
\* rebase or merge in progress, no unmerged entry.
C1_ConflictLeavesRepoAsBefore ==
    (On("pull_changes") /\ Ran2("pull") /\ "conflict" \in last.errText)
        => (last.raised = MergeConflictK /\ TreeAsBefore)

\* C2: quick_sync runs the pull stage first and the push stage only after a
\* successful pull: the operations map always has "pull", has "push" exactly
\* when the pull succeeded, success is true exactly when both succeeded, no
\* step of the push stage precedes a step of the pull stage, and no error
\* leaves quick_sync.
PushStageSteps == {"add", "commit", "push"}
C2_QuickSyncStages ==
    last.op = "quick_sync" =>
        /\ last.raised = NoError
        /\ "pull" \in DOMAIN last.ret.operations
        /\ ("push" \in DOMAIN last.ret.operations
                <=> last.ret.operations["pull"].error = None)
        /\ (last.ret.success
                <=> /\ DOMAIN last.ret.operations = {"pull", "push"}
                    /\ \A s \in {"pull", "push"} :
                           last.ret.operations[s].error = None)
        /\ ((\E i \in DOMAIN last.steps : last.steps[i] \in PushStageSteps)
                => "push" \in DOMAIN last.ret.operations)
        /\ \A i, j \in DOMAIN last.steps :
               (i < j /\ last.steps[i] \in PushStageSteps)
                   => last.steps[j] \in PushStageSteps
C2_Witness ==
    /\ last.op = "quick_sync"
    /\ DOMAIN last.ret.operations = {"pull", "push"}
    /\ last.ret.operations["push"].error = PushRejectedK
    /\ ~last.ret.success

\* C3: pull_changes on a repository with uncommitted changes (staged or
\* unstaged changes of tracked files) raises the generic GitError "Cannot pull
\* with uncommitted changes" before any fetch and changes nothing: working
\* tree, index, branch tip and remote-tracking refs stay, nothing is stashed.
C3_DirtyPullRefused ==
    (On("pull_changes")
        /\ (StagedFiles(last.pre) # {} \/ UnstagedFiles(last.pre) # {}))
        => /\ last.raised = GitErrorK
           /\ last.msg = "Cannot pull with uncommitted changes"
           /\ last.steps = <<>>
           /\ repo = last.pre
           /\ remoteNew = last.preNew
C3_Witness ==
    /\ On("pull_changes")
    /\ StagedFiles(last.pre) # {} /\ UnstagedFiles(last.pre) = {}
    /\ HasRemote(last.pre, "origin") /\ last.pre.upstream /\ last.preNew > 0
    /\ last.raised = GitErrorK

\* C4: push_changes on a dirty tree (staged, modified or untracked entries)
\* stages everything and creates exactly one commit before it attempts the
\* push, with "Vault sync: <timestamp>" as message when none is given; on a
\* clean tree it creates no commit and still attempts the push; committed is
\* true exactly when a commit was created, commit_message non-null exactly
\* when committed.
C4_PushCommitsWhenDirty ==
    On("push_changes") =>
        /\ ~PorcelainEmpty(last.pre)
              => /\ last.steps = <<"add", "commit", "push">>
                 /\ last.commitMsg = CommitMessage(last.arg.message)
                 /\ last.arg.message = None => last.commitMsg = AutoMessage
        /\ PorcelainEmpty(last.pre)
              => (last.steps = <<"push">> /\ last.commitMsg = None)
        /\ last.raised = NoError
              => /\ last.ret.committed <=> last.commitMsg # None
                 /\ last.ret.commit_message # None <=> last.ret.committed

\* C5: of two push_changes calls in succession, with no change in between,
\* the second creates no commit (it reports committed=false), and both attempt
\* the push.
PastChecks(kind) == kind \notin {GitNotInstalledK, NotAGitRepoK}
TwoPushes ==
    /\ last.op = "push_changes" /\ last'.op = "push_changes"
    /\ PastChecks(last.raised) /\ PastChecks(last'.raised)
C5_SecondPushCommitsNothing ==
    [][TwoPushes
        => /\ last'.commitMsg = None
           /\ last'.raised = NoError => ~last'.ret.committed
           /\ repo'.head = repo.head
           /\ Ran2("push") /\ RanNext("push")]_vars

\* C6: pull_changes on a branch without a tracking branch fails with the
\* generic GitError, whatever the fetch answers: never AuthenticationError,
\* never MergeConflictError, never a success.
C6_NoUpstreamIsGenericError ==
    (On("pull_changes") /\ ~last.pre.detached /\ ~last.pre.upstream)
        => last.raised = GitErrorK

\* C7: when the push step of push_changes fails, one error is raised and no
\* result is returned: PushRejectedError if the error text holds "rejected",
\* else AuthenticationError if it holds "authentication" or "permission",
\* else the generic GitError.
PushStepFailed ==
    On("push_changes") /\ LastStep = "push" /\ last.raised # NoError
C7_PushErrorKinds ==
    PushStepFailed =>
        /\ last.ret = NoRet
        /\ last.raised =
              IF "rejected" \in last.errText THEN PushRejectedK
              ELSE IF "authentication" \in last.errText
                      \/ "permission" \in last.errText THEN AuthenticationK
              ELSE GitErrorK
C7_Witness ==
    /\ PushStepFailed
    /\ last.errText = {"rejected", "authentication"}
    /\ last.raised = PushRejectedK

C9_StatusNeverRaises ==
    last.op \in {"get_repo_status", "wrapper_get_status"}
        => last.raised = NoError

\* C10: with git installed, setup_remote, initial_commit, pull_changes and
\* push_changes on a path that holds no repository raise NotAGitRepoError and
\* change nothing: no repository, no remote, no commit, no tool step.
MutatingOps == {"setup_remote", "initial_commit", "pull_changes", "push_changes"}
C10_NonRepoRejected ==
    (last.op \in MutatingOps /\ last.arg.git = "ok" /\ ~last.pre.isRepo)
        => /\ last.raised = NotAGitRepoK
           /\ last.steps = <<>>
           /\ repo = last.pre
           /\ remoteNew = last.preNew
C10_Witness ==
    /\ last.op = "push_changes" /\ last.arg.git = "ok"
    /\ ~last.pre.isRepo
    /\ \E f \in Files : last.pre.work[f] # Absent
    /\ last.raised = NotAGitRepoK

\* C11: on a repository with no remote named N, setup_remote(url, N) returns
\* created=true; the identical call repeated returns created=false, not
\* updated, and leaves the stored URL; a following call with another URL
\* returns updated=true with created=false, and the stored URL of N is then
\* the new one.
SetupThenSetup ==
    /\ last.op = "setup_remote" /\ last.raised = NoError
    /\ last'.op = "setup_remote" /\ last'.arg.git = "ok"
    /\ last'.arg.remote_name = last.arg.remote_name
    /\ last'.arg.auth_method \in {"ssh", "https"}
NewUrl == NormalizeUrl(last'.arg.remote_url, last'.arg.auth_method)
C11_SetupRemoteIdempotent ==
    [][/\ (/\ last'.op = "setup_remote" /\ last'.raised = NoError
           /\ ~HasRemote(repo, last'.arg.remote_name))
              => last'.ret.created = TRUE
       /\ (SetupThenSetup /\ last.ret.created = TRUE /\ last'.arg = last.arg)
              => /\ last'.raised = NoError
                 /\ last'.ret.created = FALSE
                 /\ ~last'.ret.updated
                 /\ repo'.remotes = repo.remotes
       /\ (SetupThenSetup /\ NewUrl # last.ret.url)
              => /\ last'.raised = NoError
                 /\ last'.ret.updated = TRUE
                 /\ last'.ret.created = FALSE
                 /\ HasRemote(repo', last'.arg.remote_name)
                 /\ repo'.remotes[last'.arg.remote_name] = NewUrl]_vars

\* C12: under auth_method "ssh" setup_remote stores and returns
\* https://github.com/OWNER/REPO as git@github.com:OWNER/REPO, and GitLab
\* likewise, so https://github.com/acme/notes.git becomes
\* git@github.com:acme/notes; any other URL under "ssh" and every URL under
\* "https" is stored as given (white space around it aside).
WithoutDotGit(path) == IF path = "acme/notes.git" THEN "acme/notes" ELSE path
SshForm(url) ==
    [prefix |-> IF url.prefix = "https://github.com/" THEN "git@github.com:"
                ELSE "git@gitlab.com:",
     path |-> WithoutDotGit(url.path), padded |-> FALSE]
StoredForm(url, auth_method) ==
    IF auth_method = "ssh"
       /\ url.prefix \in {"https://github.com/", "https://gitlab.com/"}
    THEN SshForm(url)
    ELSE [url EXCEPT !.padded = FALSE]
C12_SshRewrite ==
    (last.op = "setup_remote" /\ last.raised = NoError)
        => LET want == StoredForm(last.arg.remote_url, last.arg.auth_method)
               name == last.arg.remote_name
           IN  /\ last.ret.url = want
               /\ HasRemote(repo, name) => repo.remotes[name] = want

\* C13: init_git_repo on a path without a .git directory of its own returns
\* success with was_already_init=false, and the path has its .git directory
\* afterwards; called again it returns success with was_already_init=true, and
\* the .git directory is still there.
C13_InitIdempotent ==
    [][/\ (/\ last'.op = "init_git_repo" /\ last'.arg.git = "ok"
           /\ ~repo.own)
              => /\ last'.raised = NoError
                 /\ last'.ret.success
                 /\ ~last'.ret.was_already_init
                 /\ repo'.own
       /\ (/\ last.op = "init_git_repo" /\ last.raised = NoError
           /\ last'.op = "init_git_repo" /\ last'.arg.git = "ok")
              => /\ last'.raised = NoError
                 /\ last'.ret.success
                 /\ last'.ret.was_already_init
                 /\ repo'.own]_vars

\* C14: when .gitignore exists, configure_gitignore without overwrite returns
\* created=false and leaves the file as it is, whatever custom patterns are
\* given; with overwrite=true the file becomes the default template followed
\* by the given custom patterns, and created=true is returned.  Nothing but
\* the file changes.
C14_GitignoreKeptUnlessOverwrite ==
    (last.op = "configure_gitignore" /\ last.pre.gitignore.exists)
        => LET l == repo.gitignore.lines
               custom == last.arg.custom_patterns
           IN  /\ last.raised = NoError
               /\ repo = [last.pre EXCEPT !.gitignore = repo.gitignore]
               /\ ~last.arg.overwrite
                     => /\ last.ret.created = FALSE
                        /\ repo.gitignore = last.pre.gitignore
               /\ last.arg.overwrite
                     => /\ last.ret.created = TRUE
                        /\ repo.gitignore.exists
                        /\ l[1] = DEFAULT_GITIGNORE
                        /\ custom = <<>> => Len(l) = 1
                        /\ custom # <<>>
                              => /\ Len(l) = Len(custom) + 2
                                 /\ SubSeq(l, 3, Len(l)) = custom
C14_Witness ==
    /\ last.op = "configure_gitignore"
    /\ last.pre.gitignore = IgnoreFile(<<"drafts/">>)
    /\ last.arg.overwrite /\ last.arg.custom_patterns = <<"*.secret", "private/">>
    /\ last.ret.created = TRUE
C14_WitnessKept ==
    /\ last.op = "configure_gitignore"
    /\ last.pre.gitignore = IgnoreFile(<<"drafts/">>)
    /\ ~last.arg.overwrite /\ last.arg.custom_patterns # <<>>
    /\ repo.gitignore = IgnoreFile(<<"drafts/">>)

\* C15: right after an initial_commit that reported committed=true,
\* get_repo_status reports is_clean=true, and another initial_commit reports
\* committed=false and adds no commit.
AfterInitialCommit ==
    /\ last.op = "initial_commit" /\ last.raised = NoError
    /\ last.ret.committed
    /\ last'.arg.git = "ok"
C15_CleanAfterInitialCommit ==
    [][/\ (AfterInitialCommit /\ last'.op = "get_repo_status")
              => /\ last'.raised = NoError
                 /\ last'.ret.is_git_repo
                 /\ is_clean(last'.ret)
       /\ (AfterInitialCommit /\ last'.op = "initial_commit")
              => /\ last'.raised = NoError
                 /\ ~last'.ret.committed
                 /\ last'.commitMsg = None
                 /\ repo'.head = repo.head /\ repo'.born = repo.born
                 /\ repo'.ahead = repo.ahead]_vars
\* The second initial_commit of the scenario: init_git_repo, one file written,
\* initial_commit, initial_commit.
C15_Witness ==
    /\ last.op = "initial_commit" /\ last.raised = NoError
    /\ ~last.ret.committed
    /\ last.pre.born /\ last.pre.ahead = 1 /\ last.pre.remotes = <<>>
    /\ \E f \in Files : last.pre.head[f] = "v1" /\ last.pre.work[f] = "v1"

\* C16: the status of a freshly initialized repository, with no commit and no
\* file, reports a repository on a named branch that is clean and neither
\* ahead of nor behind anything.
FreshRepo(r) ==
    /\ r.isRepo /\ ~r.born
    /\ r.work = AllAbsent /\ r.index = AllAbsent
C16_FreshRepoStatus ==
    (On("get_repo_status") /\ last.arg.git = "ok" /\ FreshRepo(last.pre))
        => /\ last.raised = NoError
           /\ last.ret.is_git_repo
           /\ last.ret.branch # None
           /\ is_clean(last.ret)
           /\ last.ret.commits_ahead = 0
           /\ last.ret.commits_behind = 0
C16_Witness ==
    /\ On("get_repo_status") /\ last.arg.git = "ok" /\ FreshRepo(last.pre)
    /\ last.pre.own /\ last.pre.remotes = <<>>
    /\ last.raised = NoError /\ last.ret.branch = BranchName

\* C17: a successful status of a repository reports can_fast_forward exactly
\* when the branch tracks an upstream and its history is a strict prefix of the
\* upstream's: nothing ahead and at least one commit behind.
StrictlyBehind(r) ==
    /\ ~r.detached /\ r.upstream
    /\ r.ahead = 0 /\ r.behind > 0
C17_FastForwardExactly ==
    (On("get_repo_status") /\ last.raised = NoError /\ last.ret.is_git_repo)
        => (last.ret.can_fast_forward <=> StrictlyBehind(repo))

\* C18: when the branch tracks an upstream and the fetch of the status fails,
\* the status is still returned, with the branch and the file lists of the
\* repository, and with zero commits ahead and zero behind.
C18_FailedFetchZeroCounts ==
    (On("get_repo_status") /\ "fetch" \in last.ignored)
        => /\ last.raised = NoError
           /\ last.ret.is_git_repo
           /\ last.ret.branch = BranchName
           /\ last.ret.untracked_files = UntrackedFiles(last.pre)
           /\ last.ret.commits_ahead = 0
           /\ last.ret.commits_behind = 0

\* C19: a status call leaves HEAD, the branch, the index and the working tree
\* as they were; it changes at most the remote-tracking refs, and those only by
\* its fetch.
C19_StatusOnlyRefreshesRefs ==
    last.op = "get_repo_status"
        => /\ repo = [last.pre EXCEPT !.behind = repo.behind]
           /\ repo.behind # last.pre.behind => LastStep = "fetch"
C19_Witness ==
    /\ last.op = "get_repo_status" /\ last.raised = NoError
    /\ repo.behind > last.pre.behind
    /\ \E f \in Files : /\ last.pre.work[f] # last.pre.index[f]
                        /\ repo.work[f] = last.pre.work[f]

\* C20: get_repo_status, pull_changes and push_changes each return or raise,
\* also when the remote never answers the fetch, the pull or the push: no call
\* is left waiting for the tool.
C20_CallsTerminate ==
    last.op \in {"get_repo_status", "pull_changes", "push_changes"}
        => last.raised # Blocked

\* C21: run_checks runs the six checks in the fixed order, and each check
\* appends no issue or one: the issues of a run come in check order, no two of
\* them from the same check, so there are at most six.
CheckIndex(check) == CHOOSE i \in DOMAIN CheckOrder : CheckOrder[i] = check
C21_OneIssuePerCheck ==
    (last.op = "run_checks" /\ ~last.arg.fix)
        => LET issues == last.ret.issues IN
           /\ last.raised = NoError
           /\ Len(issues) <= 6
           /\ \A i, j \in DOMAIN issues :
                  i < j => CheckIndex(issues[i].check) < CheckIndex(issues[j].check)

\* C22: run_checks(fix=True) returns the issues without raising; it invokes
\* the mutating operation of every fixable issue once, and marks an issue fixed
\* exactly when its operation succeeded.
FixOperation(action) ==
    IF action = "init" THEN "init_repo"
    ELSE IF action = "gitignore" THEN "create_gitignore"
    ELSE "set_identity"
Count(seq, x) == Cardinality({i \in DOMAIN seq : seq[i] = x})
FixableOf(issues, action) ==
    Cardinality({i \in DOMAIN issues :
                    issues[i].fixable /\ issues[i].fix_action = action})
C22_FixPassFixesEachOnce ==
    (last.op = "run_checks" /\ last.arg.fix)
        => /\ last.raised = NoError
           /\ \A action \in {"init", "gitignore", "user_config"} :
                  Count(last.steps, FixOperation(action))
                      = FixableOf(last.ret.issues, action)
           /\ \A i \in DOMAIN last.ret.issues :
                  last.ret.issues[i].fixed <=> last.ret.issues[i].fixable

\* C23: one invocation of pull_changes, push_changes or quick_sync runs each of
\* its steps at most once and in the order fetch, integrate, abort, stage,
\* commit, push; the abort that follows a conflict is its last step, and a
\* quick_sync whose pull stage failed runs no stage, commit or push step.
StepOrder == <<"fetch", "pull", "abort", "add", "commit", "push">>
StepRank(step) == CHOOSE i \in DOMAIN StepOrder : StepOrder[i] = step
C23_NoRetry ==
    last.op \in {"pull_changes", "push_changes", "quick_sync"}
        => /\ \A i, j \in DOMAIN last.steps :
                  i < j => StepRank(last.steps[i]) < StepRank(last.steps[j])
           /\ Ran2("abort") => LastStep = "abort"
           /\ (/\ last.op = "quick_sync" /\ last.raised = NoError
               /\ last.ret.operations["pull"].error # None)
                  => ~(Ran2("add") \/ Ran2("commit") \/ Ran2("push"))
C23_Witness ==
    /\ last.op = "quick_sync" /\ last.raised = NoError
    /\ last.ret.operations["pull"].error = AuthenticationK
    /\ last.steps = <<"fetch">>
    /\ last.pre.ahead > 0

\* C24: pull_changes, push_changes and initial_commit apply one keyword test
\* to the error text of a failed tool call: they raise AuthenticationError only
\* when the text holds an authentication keyword, they raise it whenever it
\* does (unless the text names a conflict or a rejection), and a failure whose
\* text holds no keyword is raised as a plain GitError.
AuthKeywords == {"authentication", "permission"}
ToolCallFailed == last.raised # NoError /\ LastStep \in {"fetch", "pull", "push"}
C24_AuthenticationByKeyword ==
    last.op \in {"pull_changes", "push_changes", "initial_commit"}
        => /\ last.raised = AuthenticationK
                  => last.errText \cap AuthKeywords # {}
           /\ (/\ last.errText \cap AuthKeywords # {}
               /\ last.errText \cap {"conflict", "rejected"} = {})
                  => last.raised = AuthenticationK
           /\ (ToolCallFailed /\ last.errText \cap Keywords = {})
                  => last.raised = GitErrorK
           /\ last.ignored = {}

\* C25: a status of a repository without unmerged paths lists as staged every
\* path whose index entry differs from the last commit, as modified every
\* tracked path whose working-tree state differs from the index (changed or
\* deleted), and as untracked every path on disk that the index lacks; so it
\* is clean only when working tree, index and last commit agree.
C25_StatusPartition ==
    (/\ On("get_repo_status") /\ last.raised = NoError
     /\ UnmergedFiles(last.pre) = {})
        => /\ last.ret.staged_files = StagedFiles(last.pre)
           /\ last.ret.modified_files = UnstagedFiles(last.pre)
           /\ last.ret.untracked_files = UntrackedFiles(last.pre)
           /\ is_clean(last.ret)
                  => /\ last.pre.work = last.pre.index
                     /\ last.pre.index = last.pre.head

\* C26: after a setup_remote call that returned, the remote it names holds the
\* normalized URL of that call and every other remote is as before; after a
\* call that raised, all remotes are as before.
C26_RemotesFollowSetup ==
    last.op = "setup_remote"
        => IF last.raised = NoError
           THEN /\ HasRemote(repo, last.arg.remote_name)
                /\ repo.remotes[last.arg.remote_name]
                       = NormalizeUrl(last.arg.remote_url, last.arg.auth_method)
                /\ DOMAIN repo.remotes
                       = DOMAIN last.pre.remotes \cup {last.arg.remote_name}
                /\ \A x \in DOMAIN last.pre.remotes \ {last.arg.remote_name} :
                       repo.remotes[x] = last.pre.remotes[x]
           ELSE repo.remotes = last.pre.remotes

\* C27: the wrappers configure the remote the caller names: add_remote(name,
\* url) that returned leaves the remote `name` with the URL, normalized for the
\* auth method the URL implies; setup_remote(url, auth_method) that returned
\* leaves "origin" with the URL normalized for auth_method; no other remote
\* appears or changes.
OnlyRemoteSet(name, url) ==
    /\ HasRemote(repo, name) /\ repo.remotes[name] = url
    /\ DOMAIN repo.remotes = DOMAIN last.pre.remotes \cup {name}
    /\ \A x \in DOMAIN last.pre.remotes \ {name} :
           repo.remotes[x] = last.pre.remotes[x]
C27_WrappersNameTheRemote ==
    /\ (last.op = "add_remote" /\ last.raised = NoError)
           => OnlyRemoteSet(last.arg.remote_name,
                            NormalizeUrl(last.arg.remote_url,
                                         UrlAuthMethod(last.arg.remote_url)))
    /\ (last.op = "wrapper_setup_remote" /\ last.raised = NoError)
           => OnlyRemoteSet("origin",
                            NormalizeUrl(last.arg.remote_url, last.arg.auth_method))

\* C28: quick_sync on a repository whose tracked files have uncommitted
\* changes ends in the pull-failed outcome: success=false, the only entry is
\* "pull" with the error "Cannot pull with uncommitted changes", and no fetch,
\* commit or push has run; the repository is as before.
TrackedChanges(r) == StagedFiles(r) # {} \/ UnstagedFiles(r) # {}
C28_DirtySyncStopsAtPull ==
    (On("quick_sync") /\ TrackedChanges(last.pre))
        => /\ last.raised = NoError
           /\ ~last.ret.success
           /\ DOMAIN last.ret.operations = {"pull"}
           /\ last.ret.operations["pull"].error = GitErrorK
           /\ last.ret.operations["pull"].message
                  = "Cannot pull with uncommitted changes"
           /\ last.steps = <<>>
           /\ last.commitMsg = None
           /\ repo = last.pre /\ remoteNew = last.preNew
C28_Witness ==
    /\ On("quick_sync") /\ TrackedChanges(last.pre)
    /\ HasRemote(last.pre, "origin") /\ last.pre.upstream /\ ~last.pre.detached
    /\ last.pre.inProgress = "none"
    /\ last.raised = NoError /\ DOMAIN last.ret.operations = {"pull"}

\* C29: when push_changes committed and its push step then failed, the commit
\* is kept: the working tree is clean, the tip holds what the working tree
\* held and is one commit further; and a push_changes that follows directly
\* creates no second commit.
CommittedThenPushFailed ==
    /\ On("push_changes") /\ last.raised # NoError
    /\ last.commitMsg # None /\ LastStep = "push"
C29_CommitKeptOnFailedPush ==
    [][/\ CommittedThenPushFailed
              => /\ PorcelainEmpty(repo)
                 /\ repo.head = last.pre.work
                 /\ repo.born
                 /\ repo.ahead = last.pre.ahead + 1
       /\ (/\ CommittedThenPushFailed
           /\ last'.op = "push_changes" /\ last'.arg.git = "ok")
              => /\ last'.commitMsg = None
                 /\ ~RanNext("commit")
                 /\ repo'.head = repo.head
                 /\ repo'.ahead <= repo.ahead]_vars
C29_Witness ==
    /\ CommittedThenPushFailed
    /\ last.raised = PushRejectedK
    /\ last.pre.upstream /\ last.pre.born
    /\ repo.ahead = last.pre.ahead + 1

\* pull_changes after the repository check, with the backend as a parameter
\* (py: the GitPython path, lines 995-1062; otherwise the subprocess fallback,
\* lines 1064-1137), so that both paths can be run from one state.
PullOn(py, r, n, rebase, fetch, pull, inc) ==
    LET refuses == IF py THEN is_dirty(r, FALSE) ELSE ~PorcelainEmpty(r)
        silent(rr, nn, steps, msg) ==
            IF py THEN Raise(rr, nn, Blocked, "", steps)
            ELSE Raise(rr, nn, GitErrorK, msg, steps)
        fans == IF py THEN fetch ELSE FetchAnswer(r, fetch)
        r1 == GitFetch(r, n)
        ans == PullAnswer(r1, pull, inc)
        r2 == GitPull(r1, rebase, ans, inc)
        error == IF py \/ rebase THEN ans.text ELSE ans.text \ {"conflict"}
        integrate ==
            IF ~ans.answers
            THEN silent(r1, 0, <<"fetch", "pull">>, "Failed to pull changes")
            ELSE IF ans.ok
            THEN Return(r2, 0, <<"fetch", "pull">>,
                        [success |-> TRUE, rebase |-> rebase])
            ELSE IF "conflict" \in error
            THEN RaiseTool(PullAbortOnConflict(r2, rebase), 0, MergeConflictK,
                           "Pull resulted in merge conflicts",
                           <<"fetch", "pull", "abort">>, ans.text)
            ELSE IF "authentication" \in error
            THEN RaiseTool(r2, 0, AuthenticationK, "Authentication failed",
                           <<"fetch", "pull">>, ans.text)
            ELSE RaiseTool(r2, 0, GitErrorK, "Pull failed", <<"fetch", "pull">>,
                           ans.text)
    IN  IF refuses
        THEN Raise(r, n, GitErrorK, "Cannot pull with uncommitted changes", <<>>)
        ELSE IF py /\ r.detached
        THEN Raise(r, n, GitErrorK, "Cannot pull in detached HEAD state", <<>>)
        ELSE IF py /\ ~HasRemote(r, "origin")
        THEN Raise(r, n, GitErrorK, "Failed to pull changes", <<>>)
        ELSE IF ~fans.answers
        THEN silent(r, n, <<"fetch">>, "Failed to pull changes")
        ELSE IF ~fans.ok
        THEN IF "authentication" \in fans.text
             THEN RaiseTool(r, n, AuthenticationK,
                            "Authentication failed during fetch", <<"fetch">>,
                            fans.text)
             ELSE RaiseTool(r, n, GitErrorK,
                            IF py THEN "Failed to pull changes" ELSE "Fetch failed",
                            <<"fetch">>, fans.text)
        ELSE IF py /\ ~r1.upstream
        THEN Raise(r1, 0, GitErrorK, "No upstream branch configured", <<"fetch">>)
        ELSE integrate

\* What a caller can observe of an outcome: whether it returned or which error
\* kind it raised, and the repository and the remote it left.
Observed(out) == <<out.raised, out.repo, out.remoteNew>>

\* C30: from every repository state, with the same remote responses, the
\* GitPython path and the subprocess fallback of pull_changes both succeed or
\* raise the same error kind, and leave the repository in the same state.
C30_BackendsEquivalent ==
    repo.isRepo
        => \A rebase \in BOOLEAN, inc \in Incoming :
           \A fetch \in Only(HasRemote(repo, "origin"), FetchAnswers) :
           \A pull \in Only(HasRemote(repo, "origin") /\ fetch.ok, PullAnswers) :
                   Observed(pull_changes(repo, remoteNew, rebase, "ok",
                                         fetch, pull, inc))
                       = Observed(PullOn(~gitpython, repo, remoteNew, rebase,
                                         fetch, pull, inc))

=============================================================================
